---- MODULE Spec2Model ----
(***************************************************************************)
(* Model of inference.py, the inference / benchmarking driver of GPPNN:    *)
(* main() and the two benchmark functions measure_gpu_throughput and       *)
(* measure_gpu_latency.                                                    *)
(*                                                                         *)
(* Spec is one run of main(), from its first line to its end or to the     *)
(* exception that ends it, with the calls of the two benchmark functions   *)
(* unfolded statement by statement.  The locals of a benchmark function    *)
(* are discarded when it returns.                                          *)
(*                                                                         *)
(* Elapsed time is counted in ticks of time.time().  Tensors are           *)
(* abstracted to the values the driver reads from them: a test sample is   *)
(* the error the metric collection accumulates for it and the spectral     *)
(* distortion the SDI metric returns for it.  Calls into torch,            *)
(* torchmetrics, matplotlib and numpy return normally.                     *)
(***************************************************************************)
EXTENDS Integers, Sequences, FiniteSets, TLC

VARIABLES
    pc,                 \* position of the running function
    exc,                \* the exception that ended the run, "" when none
    stdout,             \* the lines printed so far, by kind
    calls,              \* main(): the phases entered so far, in order
    \* ---- main(): configuration (lines 74-93)
    choose_dataset, assigned, dataset, tr_dir, eval_dir, test_dir,
    checkpoint_dir, ms_channel, ergas_l,
    \* ---- main(): model and example inputs
    model_built, model_channels, model_weights, model_training,
    input_channels,
    \* ---- the device
    fwd_bench,          \* forward passes made by the benchmark functions
    gpu_pending,        \* forward passes launched and not yet synchronized
    \* ---- main(): test loop
    test_set,           \* the samples test_loader yields, in dataset order
    next_idx,           \* samples the iterator has yielded
    i,                  \* enumerate() index of the sample in the loop body
    fwd_log,            \* indices of the samples given to model(pan, mslr)
    test_metric_collection,  \* accumulated state: one entry per update
    test_metric,        \* last result of forward() or compute()
    sdi_results, average_sdi,
    figures,            \* figures pyplot holds open
    writes,             \* files written under results/, in order
    final_scores,       \* the values of the final print
    \* ---- measure_gpu_throughput
    t, ave_forward_throughput, ave_fwd_throughput,
    \* ---- measure_gpu_latency
    warm, rep, elapsed, timings, mean_latency

cfgVars == <<choose_dataset, assigned, dataset, tr_dir, eval_dir, test_dir,
             checkpoint_dir, ms_channel, ergas_l>>
modelVars == <<model_built, model_channels, model_weights, model_training,
               input_channels>>
gpuVars == <<fwd_bench, gpu_pending>>
loopVars == <<test_set, next_idx, i, fwd_log, test_metric_collection,
              test_metric, sdi_results, average_sdi, figures, writes,
              final_scores>>
thrVars == <<t, ave_forward_throughput, ave_fwd_throughput>>
latVars == <<warm, rep, elapsed, timings, mean_latency>>
vars == <<pc, exc, stdout, calls, cfgVars, modelVars, gpuVars, loopVars,
          thrVars, latVars>>

(***************************************************************************)
(* Bounds of the model and constants of the program.                       *)
(***************************************************************************)
MaxN == 3            \* largest test set
MaxTicks == 2        \* longest duration of one pass, in clock ticks
MaxErr == 1          \* largest per-sample error fed to the metrics
MaxSdi == 1          \* largest per-sample spectral distortion, in 1/SdiScale
SdiScale == 8        \* spectral distortion values are k/SdiScale

ThroughputRuns == 300
WarmupRuns == 20
repetitions == 300
GF2Channels == 4
WV3Channels == 8
ErgasL == 4
FmtDigits == 4

DatasetNames == {"GaoFen2", "WV3", "QuickBird"}

\* a rational number num/den
Rat(num, den) == [num |-> num, den |-> den]
NoRat == Rat(0, 0)
RatEq(a, b) == a.num * b.den = b.num * a.den

RECURSIVE SumSeq(_)
SumSeq(s) == IF s = <<>> THEN 0 ELSE Head(s) + SumSeq(Tail(s))

RECURSIVE Factorial(_)
Factorial(n) == IF n <= 1 THEN 1 ELSE n * Factorial(n - 1)

RECURSIVE Pow10(_)
Pow10(n) == IF n = 0 THEN 1 ELSE 10 * Pow10(n - 1)

\* '{:.Nf}'.format(x): x rounded to N decimals (ties to even), in units of 10^-N
FormatF(x, digits) ==
    LET n == x.num * Pow10(digits)
        q == n \div x.den
        r == n % x.den
    IN  IF 2 * r > x.den THEN q + 1
        ELSE IF 2 * r = x.den THEN q + (q % 2)
        ELSE q

\* str(n) of a natural number, as its decimal digits
RECURSIVE DecStr(_)
DecStr(n) == IF n < 10 THEN <<n>> ELSE Append(DecStr(n \div 10), n % 10)

\* f'results/Images_{choose_dataset}_{i}.png'
PngName(ds, idx) == <<"results/Images_", ds, "_">> \o DecStr(idx) \o <<".png">>
\* NpzName without the sample index
NpzName_NoIndex(ds, idx) == <<"results/img_array_", ds, ".npz">>

\* f'results/img_array_{choose_dataset}_{i}.npz'
NpzName(ds, idx) == <<"results/img_array_", ds, "_">> \o DecStr(idx) \o <<".npz">>

(***************************************************************************)
(* main(), lines 72-276.                                                   *)
(***************************************************************************)
Sample == [err : 0..MaxErr, sdi : 0..MaxSdi]

Raise(e) == /\ pc' = "error"
            /\ exc' = e

InitLocals ==
    /\ exc = ""
    /\ stdout = <<>>
    /\ calls = <<>>
    /\ assigned = FALSE
    /\ dataset = ""
    /\ tr_dir = ""
    /\ eval_dir = ""
    /\ test_dir = ""
    /\ checkpoint_dir = ""
    /\ ms_channel = 0
    /\ ergas_l = 0
    /\ model_built = FALSE
    /\ model_channels = 0
    /\ model_weights = ""
    /\ model_training = FALSE
    /\ input_channels = 0
    /\ fwd_bench = 0
    /\ gpu_pending = 0
    /\ test_set = <<>>
    /\ next_idx = 0
    /\ i = 0
    /\ fwd_log = <<>>
    /\ test_metric_collection = <<>>
    /\ test_metric = NoRat
    /\ sdi_results = <<>>
    /\ average_sdi = NoRat
    /\ figures = 0
    /\ writes = <<>>
    /\ final_scores = [metric |-> NoRat, d_lambda |-> 0]
    /\ t = 0
    /\ ave_forward_throughput = [len |-> 0, first |-> 0, rest |-> 0]
    /\ ave_fwd_throughput = NoRat
    /\ warm = 0
    /\ rep = 0
    /\ elapsed = 0
    /\ timings = [len |-> 0, sum |-> 0]
    /\ mean_latency = NoRat

Init ==
    /\ pc = "main"
    /\ choose_dataset \in DatasetNames
    /\ InitLocals

\* ChooseDataset with the WV3 branch carrying the channel count of GaoFen2
ChooseDataset_CopiedChannels ==
    /\ pc = "main"
    /\ pc' = "device"
    /\ IF choose_dataset \in {"GaoFen2", "WV3"}
       THEN /\ assigned' = TRUE
            /\ dataset' = choose_dataset
            /\ tr_dir' = IF choose_dataset = "WV3"
                         THEN "data/pansharpenning_dataset/WV3/train/train_wv3.h5"
                         ELSE "data/pansharpenning_dataset/GF2/train/train_gf2.h5"
            /\ eval_dir' = IF choose_dataset = "WV3"
                           THEN "data/pansharpenning_dataset/WV3/val/valid_wv3.h5"
                           ELSE "data/pansharpenning_dataset/GF2/val/valid_gf2.h5"
            /\ test_dir' = IF choose_dataset = "WV3"
                           THEN "data/pansharpenning_dataset/WV3/test/test_wv3_multiExm1.h5"
                           ELSE "data/pansharpenning_dataset/GF2/test/test_gf2_multiExm1.h5"
            /\ checkpoint_dir' = IF choose_dataset = "WV3"
                                 THEN "checkpoints/gppnn_WV3/gppnn_WV3_2023_07_27-08_11_42.pth.tar"
                                 ELSE "checkpoints/gppnn_GF2/gppnn_2023_07_25-18_15_08.pth.tar"
            /\ ms_channel' = GF2Channels
            /\ ergas_l' = ErgasL
            /\ UNCHANGED stdout
       ELSE /\ stdout' = Append(stdout, "does not exist")
            /\ UNCHANGED <<assigned, dataset, tr_dir, eval_dir, test_dir,
                           checkpoint_dir, ms_channel, ergas_l>>
    /\ UNCHANGED <<exc, calls, choose_dataset, modelVars, gpuVars, loopVars,
                   thrVars, latVars>>

\* lines 74-93: the if / elif / else on choose_dataset
ChooseDataset ==
    /\ pc = "main"
    /\ pc' = "device"
    /\ IF choose_dataset = "GaoFen2"
       THEN /\ assigned' = TRUE
            /\ dataset' = "GaoFen2"
            /\ tr_dir' = "data/pansharpenning_dataset/GF2/train/train_gf2.h5"
            /\ eval_dir' = "data/pansharpenning_dataset/GF2/val/valid_gf2.h5"
            /\ test_dir' = "data/pansharpenning_dataset/GF2/test/test_gf2_multiExm1.h5"
            /\ checkpoint_dir' = "checkpoints/gppnn_GF2/gppnn_2023_07_25-18_15_08.pth.tar"
            /\ ms_channel' = GF2Channels
            /\ ergas_l' = ErgasL
            /\ UNCHANGED stdout
       ELSE IF choose_dataset = "WV3"
       THEN /\ assigned' = TRUE
            /\ dataset' = "WV3"
            /\ tr_dir' = "data/pansharpenning_dataset/WV3/train/train_wv3.h5"
            /\ eval_dir' = "data/pansharpenning_dataset/WV3/val/valid_wv3.h5"
            /\ test_dir' = "data/pansharpenning_dataset/WV3/test/test_wv3_multiExm1.h5"
            /\ checkpoint_dir' = "checkpoints/gppnn_WV3/gppnn_WV3_2023_07_27-08_11_42.pth.tar"
            /\ ms_channel' = WV3Channels
            /\ ergas_l' = ErgasL
            /\ UNCHANGED stdout
       ELSE /\ stdout' = Append(stdout, "does not exist")
            /\ UNCHANGED <<assigned, dataset, tr_dir, eval_dir, test_dir,
                           checkpoint_dir, ms_channel, ergas_l>>
    /\ UNCHANGED <<exc, calls, choose_dataset, modelVars, gpuVars, loopVars,
                   thrVars, latVars>>

\* lines 96-97
PrepareDevice ==
    /\ pc = "device"
    /\ pc' = "dataloader"
    /\ stdout' = Append(stdout, "device")
    /\ UNCHANGED <<exc, calls, cfgVars, modelVars, gpuVars, loopVars,
                   thrVars, latVars>>

\* InitDataLoader as if the locals always had a value
InitDataLoader_NoUnbound ==
    /\ pc = "dataloader"
    /\ pc' = "model"
    /\ UNCHANGED <<exc, stdout, calls, cfgVars, modelVars, gpuVars, loopVars,
                   thrVars, latVars>>

\* lines 100-113: dataset(Path(tr_dir), ...) reads the local `dataset` first
InitDataLoader ==
    /\ pc = "dataloader"
    /\ IF assigned
       THEN /\ pc' = "model"
            /\ UNCHANGED exc
       ELSE Raise("UnboundLocalError: dataset")
    /\ UNCHANGED <<stdout, calls, cfgVars, modelVars, gpuVars, loopVars,
                   thrVars, latVars>>

\* lines 116-184: GPPNN(ms_channel, ...), the metric collections, the counters
InitModel ==
    /\ pc = "model"
    /\ pc' = "load_checkpoint"
    /\ model_built' = TRUE
    /\ model_channels' = ms_channel
    /\ model_weights' = "initial"
    /\ model_training' = TRUE
    /\ test_metric_collection' = <<>>
    /\ sdi_results' = <<>>
    /\ UNCHANGED <<exc, stdout, calls, cfgVars, input_channels, gpuVars,
                   test_set, next_idx, i, fwd_log, test_metric, average_sdi,
                   figures, writes, final_scores, thrVars, latVars>>

\* LoadCheckpoint with continue_from_checkpoint False: nothing is loaded
LoadCheckpoint_Skipped ==
    /\ pc = "load_checkpoint"
    /\ pc' = "inputs"
    /\ UNCHANGED <<exc, stdout, calls, cfgVars, modelVars, gpuVars, loopVars,
                   thrVars, latVars>>

\* lines 186-190: continue_from_checkpoint is True
LoadCheckpoint ==
    /\ pc = "load_checkpoint"
    /\ pc' = "inputs"
    /\ model_weights' = checkpoint_dir
    /\ stdout' = Append(stdout, "Model Loaded ...")
    /\ calls' = Append(calls, "load_checkpoint")
    /\ UNCHANGED <<exc, cfgVars, model_built, model_channels, model_training,
                   input_channels, gpuVars, loopVars, thrVars, latVars>>

\* lines 195-198: torch.randn(1, ms_channel, 64, 64)
MakeInputs ==
    /\ pc = "inputs"
    /\ pc' = "eval"
    /\ input_channels' = ms_channel
    /\ UNCHANGED <<exc, stdout, calls, cfgVars, model_built, model_channels,
                   model_weights, model_training, gpuVars, loopVars, thrVars,
                   latVars>>

\* line 199: model.eval()
ModelEval ==
    /\ pc = "eval"
    /\ pc' = "throughput"
    /\ model_training' = FALSE
    /\ calls' = Append(calls, "model.eval")
    /\ UNCHANGED <<exc, stdout, cfgVars, model_built, model_channels,
                   model_weights, input_channels, gpuVars, loopVars, thrVars,
                   latVars>>

\* lines 204-206: idx = 15; model.eval()
ModelEval2 ==
    /\ pc = "eval2"
    /\ pc' = "iter"
    /\ model_training' = FALSE
    /\ calls' = Append(calls, "model.eval")
    /\ UNCHANGED <<exc, stdout, cfgVars, model_built, model_channels,
                   model_weights, input_channels, gpuVars, loopVars, thrVars,
                   latVars>>

\* lines 207-208: iter(test_loader); batch_size=1, shuffle=False (line 113):
\* the iterator yields the samples of the test file one by one, in order
IterTestLoader ==
    /\ pc = "iter"
    /\ pc' = "loop"
    /\ \E n \in 0..MaxN : test_set' \in [1..n -> Sample]
    /\ next_idx' = 0
    /\ calls' = Append(calls, "iterate test_loader")
    /\ UNCHANGED <<exc, stdout, cfgVars, modelVars, gpuVars, i, fwd_log,
                   test_metric_collection, test_metric, sdi_results,
                   average_sdi, figures, writes, final_scores, thrVars,
                   latVars>>

\* line 209: for i, (pan, mslr, mshr) in enumerate(test_iterator)
LoopNext ==
    /\ pc = "loop"
    /\ IF next_idx < Len(test_set)
       THEN /\ pc' = "forward"
            /\ i' = next_idx
            /\ next_idx' = next_idx + 1
       ELSE /\ pc' = "compute"
            /\ UNCHANGED <<i, next_idx>>
    /\ UNCHANGED <<exc, stdout, calls, cfgVars, modelVars, gpuVars, test_set,
                   fwd_log, test_metric_collection, test_metric, sdi_results,
                   average_sdi, figures, writes, final_scores, thrVars,
                   latVars>>

\* lines 211-214: mssr = model(pan, mslr)
Forward ==
    /\ pc = "forward"
    /\ pc' = "metric"
    /\ fwd_log' = Append(fwd_log, i)
    /\ gpu_pending' = gpu_pending + 1
    /\ UNCHANGED <<exc, stdout, calls, cfgVars, modelVars, fwd_bench,
                   test_set, next_idx, i, test_metric_collection, test_metric,
                   sdi_results, average_sdi, figures, writes, final_scores,
                   thrVars, latVars>>

\* MetricForward computing the batch value without accumulating it
MetricForward_NoUpdate ==
    /\ pc = "metric"
    /\ pc' = "sdi"
    /\ test_metric' = Rat(test_set[i + 1].err, 1)
    /\ UNCHANGED <<exc, stdout, calls, cfgVars, modelVars, gpuVars, test_set,
                   next_idx, i, fwd_log, test_metric_collection, sdi_results,
                   average_sdi, figures, writes, final_scores, thrVars,
                   latVars>>

\* lines 215-216: test_metric_collection.forward(mssr, mshr) accumulates the
\* batch into the collection's state and returns the value of the batch alone
MetricForward ==
    /\ pc = "metric"
    /\ pc' = "sdi"
    /\ test_metric_collection' =
           Append(test_metric_collection, test_set[i + 1].err)
    /\ test_metric' = Rat(test_set[i + 1].err, 1)
    /\ UNCHANGED <<exc, stdout, calls, cfgVars, modelVars, gpuVars, test_set,
                   next_idx, i, fwd_log, sdi_results, average_sdi, figures,
                   writes, final_scores, thrVars, latVars>>

\* lines 218-226: sdi_results.append(sdi_value.item()); .item() copies the
\* value to the host, which waits for the device
SdiAppend ==
    /\ pc = "sdi"
    /\ pc' = "figure"
    /\ sdi_results' = Append(sdi_results, test_set[i + 1].sdi)
    /\ gpu_pending' = 0
    /\ UNCHANGED <<exc, stdout, calls, cfgVars, modelVars, fwd_bench,
                   test_set, next_idx, i, fwd_log, test_metric_collection,
                   test_metric, average_sdi, figures, writes, final_scores,
                   thrVars, latVars>>

\* lines 229-249: plt.subplots(...) opens a new figure; nothing closes one
MakeFigure ==
    /\ pc = "figure"
    /\ pc' = "savefig"
    /\ figures' = figures + 1
    /\ UNCHANGED <<exc, stdout, calls, cfgVars, modelVars, gpuVars, test_set,
                   next_idx, i, fwd_log, test_metric_collection, test_metric,
                   sdi_results, average_sdi, writes, final_scores, thrVars,
                   latVars>>

\* SavePng followed by plt.close(figure)
SavePng_Close ==
    /\ pc = "savefig"
    /\ pc' = "savez"
    /\ writes' = Append(writes, PngName(choose_dataset, i))
    /\ figures' = figures - 1
    /\ UNCHANGED <<exc, stdout, calls, cfgVars, modelVars, gpuVars, test_set,
                   next_idx, i, fwd_log, test_metric_collection, test_metric,
                   sdi_results, average_sdi, final_scores, thrVars, latVars>>

\* line 251: plt.savefig(...)
SavePng ==
    /\ pc = "savefig"
    /\ pc' = "savez"
    /\ writes' = Append(writes, PngName(choose_dataset, i))
    /\ UNCHANGED <<exc, stdout, calls, cfgVars, modelVars, gpuVars, test_set,
                   next_idx, i, fwd_log, test_metric_collection, test_metric,
                   sdi_results, average_sdi, figures, final_scores, thrVars,
                   latVars>>

\* lines 253-259: np.savez(...)
SaveNpz ==
    /\ pc = "savez"
    /\ pc' = "loop"
    /\ writes' = Append(writes, NpzName(choose_dataset, i))
    /\ UNCHANGED <<exc, stdout, calls, cfgVars, modelVars, gpuVars, test_set,
                   next_idx, i, fwd_log, test_metric_collection, test_metric,
                   sdi_results, average_sdi, figures, final_scores, thrVars,
                   latVars>>

\* the value compute() derives from the accumulated state: the mean of the
\* accumulated errors (0/0 when nothing was accumulated)
Aggregate(state) == Rat(SumSeq(state), Len(state))

\* ComputeMetrics returning the value of the last forward() instead of
\* computing from the accumulated state
ComputeMetrics_LastBatch ==
    /\ pc = "compute"
    /\ pc' = "reset"
    /\ calls' = Append(calls, "compute")
    /\ UNCHANGED <<exc, stdout, cfgVars, modelVars, gpuVars, test_set,
                   next_idx, i, fwd_log, test_metric_collection, test_metric,
                   sdi_results, average_sdi, figures, writes, final_scores,
                   thrVars, latVars>>

\* line 262: test_metric = test_metric_collection.compute()
ComputeMetrics ==
    /\ pc = "compute"
    /\ pc' = "reset"
    /\ test_metric' = Aggregate(test_metric_collection)
    /\ calls' = Append(calls, "compute")
    /\ UNCHANGED <<exc, stdout, cfgVars, modelVars, gpuVars, test_set,
                   next_idx, i, fwd_log, test_metric_collection, sdi_results,
                   average_sdi, figures, writes, final_scores, thrVars,
                   latVars>>

\* line 263: test_metric_collection.reset()
ResetMetrics ==
    /\ pc = "reset"
    /\ pc' = "average"
    /\ test_metric_collection' = <<>>
    /\ UNCHANGED <<exc, stdout, calls, cfgVars, modelVars, gpuVars, test_set,
                   next_idx, i, fwd_log, test_metric, sdi_results,
                   average_sdi, figures, writes, final_scores, thrVars,
                   latVars>>

\* sum(sdi_results) / len(sdi_results), the values being k/SdiScale
MeanSdi(results) == Rat(SumSeq(results), Len(results) * SdiScale)

\* AverageSdi guarded against an empty list
AverageSdi_Guarded ==
    /\ pc = "average"
    /\ pc' = "print"
    /\ average_sdi' = IF Len(sdi_results) = 0 THEN Rat(0, 1)
                      ELSE MeanSdi(sdi_results)
    /\ UNCHANGED <<exc, stdout, calls, cfgVars, modelVars, gpuVars, test_set,
                   next_idx, i, fwd_log, test_metric_collection, test_metric,
                   sdi_results, figures, writes, final_scores, thrVars,
                   latVars>>

\* line 266: average_sdi = sum(sdi_results) / len(sdi_results)
AverageSdi ==
    /\ pc = "average"
    /\ IF Len(sdi_results) = 0
       THEN /\ Raise("ZeroDivisionError: average_sdi")
            /\ UNCHANGED average_sdi
       ELSE /\ pc' = "print"
            /\ average_sdi' = MeanSdi(sdi_results)
            /\ UNCHANGED exc
    /\ UNCHANGED <<stdout, calls, cfgVars, modelVars, gpuVars, test_set,
                   next_idx, i, fwd_log, test_metric_collection, test_metric,
                   sdi_results, figures, writes, final_scores, thrVars,
                   latVars>>

\* lines 269-276: the final print
PrintFinal ==
    /\ pc = "print"
    /\ pc' = "done"
    /\ final_scores' = [metric |-> test_metric,
                        d_lambda |-> FormatF(average_sdi, FmtDigits)]
    /\ stdout' = Append(stdout, "Final scores")
    /\ calls' = Append(calls, "print final scores")
    /\ UNCHANGED <<exc, cfgVars, modelVars, gpuVars, test_set, next_idx, i,
                   fwd_log, test_metric_collection, test_metric, sdi_results,
                   average_sdi, figures, writes, thrVars, latVars>>

(***************************************************************************)
(* measure_gpu_throughput, lines 22-40, called at line 201.                *)
(***************************************************************************)
\* throughputs are multiples of 1/ThrScale passes per tick
ThrScale == Factorial(MaxTicks)

\* line 34: fwd_throughput = 1/(end-start)
FwdThroughput(ticks) == ThrScale \div ticks

\* line 36: ave_forward_throughput.append(fwd_throughput); the list is kept
\* as its length, its first element and the sum of the others
AppendThroughput(lst, x) ==
    IF lst.len = 0
    THEN [len |-> 1, first |-> x, rest |-> 0]
    ELSE [len |-> lst.len + 1, first |-> lst.first, rest |-> lst.rest + x]

\* line 38: np.mean(ave_forward_throughput[1:])
MeanThroughput(lst) == Rat(lst.rest, (lst.len - 1) * ThrScale)

\* lines 23-29
ThrEnter ==
    /\ pc = "throughput"
    /\ pc' = "thr_loop"
    /\ t' = 0
    /\ ave_forward_throughput' = [len |-> 0, first |-> 0, rest |-> 0]
    /\ UNCHANGED <<exc, stdout, calls, cfgVars, modelVars, gpuVars, loopVars,
                   ave_fwd_throughput, latVars>>

\* lines 30-36: one pass of the loop; `ticks` is end - start
ThrPass ==
    /\ pc = "thr_loop"
    /\ t < ThroughputRuns
    /\ fwd_bench' = fwd_bench + 1
    /\ gpu_pending' = gpu_pending + 1
    /\ \E ticks \in 0..MaxTicks :
         IF ticks = 0
         THEN /\ Raise("ZeroDivisionError: throughput")
              /\ UNCHANGED <<t, ave_forward_throughput>>
         ELSE /\ ave_forward_throughput' =
                     AppendThroughput(ave_forward_throughput, FwdThroughput(ticks))
              /\ t' = t + 1
              /\ UNCHANGED <<pc, exc>>
    /\ UNCHANGED <<stdout, calls, cfgVars, modelVars, loopVars,
                   ave_fwd_throughput, latVars>>

\* line 38
ThrMean ==
    /\ pc = "thr_loop"
    /\ t = ThroughputRuns
    /\ pc' = "thr_print"
    /\ ave_fwd_throughput' = MeanThroughput(ave_forward_throughput)
    /\ UNCHANGED <<exc, stdout, calls, cfgVars, modelVars, gpuVars, loopVars,
                   t, ave_forward_throughput, latVars>>

\* line 40, and the return to main(), which ends the locals
ThrPrint ==
    /\ pc = "thr_print"
    /\ pc' = "latency"
    /\ stdout' = Append(stdout, "Mean throughput over 300 runs")
    /\ calls' = Append(calls, "measure_gpu_throughput")
    /\ t' = 0
    /\ ave_forward_throughput' = [len |-> 0, first |-> 0, rest |-> 0]
    /\ ave_fwd_throughput' = NoRat
    /\ UNCHANGED <<exc, cfgVars, modelVars, gpuVars, loopVars, latVars>>

(***************************************************************************)
(* measure_gpu_latency, lines 43-69, called at line 202.                   *)
(***************************************************************************)
\* line 64: timings.append(latency); the list is kept as its length and sum
AppendTiming(lst, x) == [len |-> lst.len + 1, sum |-> lst.sum + x]

\* line 66: np.mean(timings)
MeanLatency(lst) == Rat(lst.sum, lst.len)

\* lines 44-48
LatEnter ==
    /\ pc = "latency"
    /\ pc' = "lat_warm"
    /\ warm' = 0
    /\ UNCHANGED <<exc, stdout, calls, cfgVars, modelVars, gpuVars, loopVars,
                   thrVars, rep, elapsed, timings, mean_latency>>

\* line 52: _ = model(input1, input2)
LatWarmForward ==
    /\ pc = "lat_warm"
    /\ warm < WarmupRuns
    /\ pc' = "lat_warm_sync"
    /\ fwd_bench' = fwd_bench + 1
    /\ gpu_pending' = gpu_pending + 1
    /\ UNCHANGED <<exc, stdout, calls, cfgVars, modelVars, loopVars, thrVars,
                   latVars>>

\* line 53: torch.cuda.synchronize()
LatWarmSync ==
    /\ pc = "lat_warm_sync"
    /\ pc' = "lat_warm"
    /\ gpu_pending' = 0
    /\ warm' = warm + 1
    /\ UNCHANGED <<exc, stdout, calls, cfgVars, modelVars, fwd_bench,
                   loopVars, thrVars, rep, elapsed, timings, mean_latency>>

\* lines 56-57
LatBegin ==
    /\ pc = "lat_warm"
    /\ warm = WarmupRuns
    /\ pc' = "lat_loop"
    /\ timings' = [len |-> 0, sum |-> 0]
    /\ rep' = 0
    /\ UNCHANGED <<exc, stdout, calls, cfgVars, modelVars, gpuVars, loopVars,
                   thrVars, warm, elapsed, mean_latency>>

\* line 59: start = time.time()
LatStart ==
    /\ pc = "lat_loop"
    /\ rep < repetitions
    /\ pc' = "lat_fwd"
    /\ elapsed' = 0
    /\ UNCHANGED <<exc, stdout, calls, cfgVars, modelVars, gpuVars, loopVars,
                   thrVars, warm, rep, timings, mean_latency>>

\* line 60: _ = model(input1, input2)
LatForward ==
    /\ pc = "lat_fwd"
    /\ pc' = "lat_sync"
    /\ fwd_bench' = fwd_bench + 1
    /\ gpu_pending' = gpu_pending + 1
    /\ UNCHANGED <<exc, stdout, calls, cfgVars, modelVars, loopVars, thrVars,
                   latVars>>

\* LatSync left out: the end timestamp follows the launch of the pass
LatSync_Missing ==
    /\ pc = "lat_sync"
    /\ pc' = "lat_end"
    /\ \E ticks \in 1..MaxTicks : elapsed' = elapsed + ticks
    /\ UNCHANGED <<exc, stdout, calls, cfgVars, modelVars, gpuVars, loopVars,
                   thrVars, warm, rep, timings, mean_latency>>

\* line 61: torch.cuda.synchronize(); the host waits for the pass
LatSync ==
    /\ pc = "lat_sync"
    /\ pc' = "lat_end"
    /\ gpu_pending' = 0
    /\ \E ticks \in 1..MaxTicks : elapsed' = elapsed + ticks
    /\ UNCHANGED <<exc, stdout, calls, cfgVars, modelVars, fwd_bench,
                   loopVars, thrVars, warm, rep, timings, mean_latency>>

\* lines 62-64: end = time.time(); latency = end - start; timings.append
LatEnd ==
    /\ pc = "lat_end"
    /\ pc' = "lat_loop"
    /\ timings' = AppendTiming(timings, elapsed)
    /\ rep' = rep + 1
    /\ UNCHANGED <<exc, stdout, calls, cfgVars, modelVars, gpuVars, loopVars,
                   thrVars, warm, elapsed, mean_latency>>

\* line 66
LatMean ==
    /\ pc = "lat_loop"
    /\ rep = repetitions
    /\ pc' = "lat_print"
    /\ mean_latency' = MeanLatency(timings)
    /\ UNCHANGED <<exc, stdout, calls, cfgVars, modelVars, gpuVars, loopVars,
                   thrVars, warm, rep, elapsed, timings>>

\* lines 67-69, and the return to main(), which drops the returned mean
\* and ends the locals
LatPrint ==
    /\ pc = "lat_print"
    /\ pc' = "eval2"
    /\ stdout' = Append(stdout, "Mean time over 300 runs")
    /\ calls' = Append(calls, "measure_gpu_latency")
    /\ warm' = 0
    /\ rep' = 0
    /\ elapsed' = 0
    /\ timings' = [len |-> 0, sum |-> 0]
    /\ mean_latency' = NoRat
    /\ UNCHANGED <<exc, cfgVars, modelVars, gpuVars, loopVars, thrVars>>

Next ==
    \/ ChooseDataset
    \/ PrepareDevice
    \/ InitDataLoader
    \/ InitModel
    \/ LoadCheckpoint
    \/ MakeInputs
    \/ ModelEval
    \/ ThrEnter
    \/ ThrPass
    \/ ThrMean
    \/ ThrPrint
    \/ LatEnter
    \/ LatWarmForward
    \/ LatWarmSync
    \/ LatBegin
    \/ LatStart
    \/ LatForward
    \/ LatSync
    \/ LatEnd
    \/ LatMean
    \/ LatPrint
    \/ ModelEval2
    \/ IterTestLoader
    \/ LoopNext
    \/ Forward
    \/ MetricForward
    \/ SdiAppend
    \/ MakeFigure
    \/ SavePng
    \/ SaveNpz
    \/ ComputeMetrics
    \/ ResetMetrics
    \/ AverageSdi
    \/ PrintFinal

Spec == Init /\ [][Next]_vars

(***************************************************************************)
(* Properties.                                                             *)
(***************************************************************************)
RangeOf(s) == {s[k] : k \in 1..Len(s)}
IsPrefix(a, b) == /\ Len(a) <= Len(b)
                  /\ \A k \in 1..Len(a) : a[k] = b[k]
Count(s, x) == Cardinality({k \in 1..Len(s) : s[k] = x})

\* the test loop is inside its body, between the forward pass of sample i
\* and the last write for sample i
InBody == pc \in {"forward", "metric", "sdi", "figure", "savefig", "savez"}
\* iter(test_loader) has run: the test set is fixed
Iterating == "iterate test_loader" \in RangeOf(calls)
\* the test loop has ended
LoopEnded == pc \in {"compute", "reset", "average", "print", "done"}
           \/ (pc = "error" /\ Iterating)
N == Len(test_set)
\* samples whose loop body has run to its end
Processed == IF InBody THEN next_idx - 1 ELSE next_idx
BenchmarkForwards == ThroughputRuns + WarmupRuns + repetitions

\* ---- C1 -----------------------------------------------------------------
PhasesOnce ==
    <<"load_checkpoint", "model.eval", "measure_gpu_throughput",
      "measure_gpu_latency", "iterate test_loader", "compute",
      "print final scores">>
PhasesOfMain ==
    <<"load_checkpoint", "model.eval", "measure_gpu_throughput",
      "measure_gpu_latency", "model.eval", "iterate test_loader", "compute",
      "print final scores">>
ForwardOrder ==
    /\ (fwd_bench > 0 \/ fwd_log # <<>>) =>
           /\ Count(calls, "load_checkpoint") = 1
           /\ model_weights = checkpoint_dir
           /\ model_weights # "initial"
    /\ (InBody \/ fwd_log # <<>>) =>
           /\ Count(calls, "measure_gpu_throughput") = 1
           /\ Count(calls, "measure_gpu_latency") = 1
           /\ fwd_bench = BenchmarkForwards

\* C1 as stated: a run of main() that reaches the end has gone through
\* checkpoint load, model.eval, measure_gpu_throughput, measure_gpu_latency,
\* iteration of the test set, metric compute, final print, in this order and
\* each exactly once; no forward pass precedes the checkpoint load and no
\* test sample precedes the return of both benchmark functions.
C1_OnceEach ==
    /\ pc = "done" => calls = PhasesOnce
    /\ ForwardOrder

\* C1 amended: the same order, with the model put in evaluation mode twice,
\* once before measure_gpu_throughput (line 199) and once more between
\* measure_gpu_latency and the iteration of the test set (line 206); every
\* other phase exactly once; at any point the phases so far are a prefix of
\* that order.
C1_PhaseOrder ==
    /\ IsPrefix(calls, PhasesOfMain)
    /\ pc = "done" => calls = PhasesOfMain
    /\ ForwardOrder

C1_Witness == pc = "done" /\ N >= 1 /\ calls = PhasesOfMain

\* ---- C2 -----------------------------------------------------------------
\* the files of samples 0..n-1, in the order the loop writes them
RECURSIVE ExpectedWrites(_, _)
ExpectedWrites(ds, n) ==
    IF n = 0 THEN <<>>
    ELSE ExpectedWrites(ds, n - 1)
             \o << <<"results/Images_", ds, "_">> \o DecStr(n - 1) \o <<".png">>,
                   <<"results/img_array_", ds, "_">> \o DecStr(n - 1) \o <<".npz">> >>

\* C2: the test loop writes exactly one PNG and one NPZ per sample index
\* 0..N-1 and nothing else; no two writes share a file name; for each sample
\* the PNG is written before the NPZ, and both before the forward pass of the
\* next sample.
C2_OneFilePairPerSample ==
    /\ \A a, b \in 1..Len(writes) : a # b => writes[a] # writes[b]
    /\ IsPrefix(writes, ExpectedWrites(choose_dataset, N))
    /\ pc = "forward" => writes = ExpectedWrites(choose_dataset, i)
    /\ pc = "savez" => Len(writes) = 2 * i + 1
    /\ LoopEnded => writes = ExpectedWrites(choose_dataset, N)

C2_Witness == pc = "done" /\ N = MaxN /\ Len(writes) = 2 * MaxN

MeanOfAllRuns(lst) == Rat(lst.first + lst.rest, lst.len * ThrScale)

\* C4: measure_gpu_throughput makes exactly 300 timed forward passes and the
\* value printed as 'Mean throughput over 300 runs' is the mean of the
\* per-run throughput over all 300 of them.
C4_MeanOverAllRuns ==
    pc = "thr_print" =>
        /\ t = ThroughputRuns
        /\ ave_forward_throughput.len = ThroughputRuns
        /\ FormatF(ave_fwd_throughput, FmtDigits) =
               FormatF(MeanOfAllRuns(ave_forward_throughput), FmtDigits)

\* ---- C5 -----------------------------------------------------------------
RECURSIVE SumErr(_)
SumErr(n) == IF n = 0 THEN 0 ELSE SumErr(n - 1) + test_set[n].err
RECURSIVE SumSdi(_)
SumSdi(n) == IF n = 0 THEN 0 ELSE SumSdi(n - 1) + test_set[n].sdi

\* C5: the final scores are computed once, after the last sample, from the
\* state accumulated over all N samples; D_lambda is the mean of the N
\* values of sdi_results (printed with 4 decimals); the collection is reset
\* only after the compute, so the printed values are the pre-reset aggregate.
C5_FinalScoresAggregate ==
    /\ Count(calls, "compute") <= 1
    /\ (InBody \/ pc = "loop") => Count(calls, "compute") = 0
    /\ pc \in {"loop", "compute"} =>
           Len(test_metric_collection) = Processed
    /\ pc \in {"reset", "average", "print", "done"} =>
           /\ test_metric = Rat(SumErr(N), N)
           /\ Count(calls, "compute") = 1
    /\ pc = "reset" => Len(test_metric_collection) = N
    /\ pc \in {"average", "print", "done"} => test_metric_collection = <<>>
    /\ pc \in {"print", "done"} =>
           /\ Len(sdi_results) = N
           /\ average_sdi = Rat(SumSdi(N), N * SdiScale)
    /\ pc = "done" =>
           /\ final_scores.metric = Rat(SumErr(N), N)
           /\ final_scores.d_lambda =
                  FormatF(Rat(SumSdi(N), N * SdiScale), FmtDigits)

\* the aggregate differs from the value of the last batch alone
C5_Witness ==
    /\ pc = "done"
    /\ N = MaxN
    /\ ~RatEq(final_scores.metric, Rat(test_set[N].err, 1))
    /\ SumSdi(N) > 0
    /\ SumSdi(N) % N # 0

\* ---- C6 -----------------------------------------------------------------
InLatency == pc \in {"lat_warm", "lat_warm_sync", "lat_loop", "lat_fwd",
                     "lat_sync", "lat_end", "lat_print"}
InTimed == pc \in {"lat_loop", "lat_fwd", "lat_sync", "lat_end", "lat_print"}

\* C6: measure_gpu_latency makes exactly 20 warm-up passes, each followed by
\* a synchronization, before the first timed pass; then exactly 300 timed
\* passes, the start timestamp taken with no pass outstanding and before
\* the forward pass, the end timestamp after the synchronization of that
\* pass; the mean is over exactly those 300 timings.
C6_LatencyProtocol ==
    /\ InLatency =>
           fwd_bench = ThroughputRuns + warm + rep
                       + (IF pc \in {"lat_warm_sync", "lat_sync", "lat_end"}
                          THEN 1 ELSE 0)
    /\ pc \in {"lat_warm", "lat_warm_sync"} =>
           /\ warm <= WarmupRuns
           /\ timings.len = 0
           /\ rep = 0
    /\ (pc = "lat_warm" /\ warm > 0) => gpu_pending = 0
    /\ InTimed =>
           /\ warm = WarmupRuns
           /\ timings.len = rep
           /\ rep <= repetitions
           /\ timings.sum >= rep
           /\ timings.sum <= rep * MaxTicks
    /\ pc \in {"lat_loop", "lat_fwd", "lat_end", "lat_print"} => gpu_pending = 0
    /\ pc = "lat_sync" => gpu_pending = 1 /\ elapsed = 0
    /\ pc = "lat_end" => elapsed \in 1..MaxTicks
    /\ pc = "lat_print" =>
           /\ rep = repetitions
           /\ timings.len = repetitions
           /\ mean_latency = Rat(timings.sum, repetitions)
           /\ fwd_bench = BenchmarkForwards

C6_Witness ==
    /\ pc = "lat_print"
    /\ timings.len = repetitions
    /\ timings.sum > repetitions
    /\ timings.sum < repetitions * MaxTicks

\* ---- C7 -----------------------------------------------------------------
\* C7: the dataset name fixes one consistent configuration (class, files,
\* checkpoint, channel count); the model and the benchmark's multispectral
\* input carry that channel count and the output files that dataset name.
C7_ConsistentConfiguration ==
    /\ (assigned /\ choose_dataset = "GaoFen2") =>
           /\ dataset = "GaoFen2"
           /\ tr_dir = "data/pansharpenning_dataset/GF2/train/train_gf2.h5"
           /\ eval_dir = "data/pansharpenning_dataset/GF2/val/valid_gf2.h5"
           /\ test_dir = "data/pansharpenning_dataset/GF2/test/test_gf2_multiExm1.h5"
           /\ checkpoint_dir = "checkpoints/gppnn_GF2/gppnn_2023_07_25-18_15_08.pth.tar"
           /\ ms_channel = 4
    /\ (assigned /\ choose_dataset = "WV3") =>
           /\ dataset = "WV3"
           /\ tr_dir = "data/pansharpenning_dataset/WV3/train/train_wv3.h5"
           /\ eval_dir = "data/pansharpenning_dataset/WV3/val/valid_wv3.h5"
           /\ test_dir = "data/pansharpenning_dataset/WV3/test/test_wv3_multiExm1.h5"
           /\ checkpoint_dir = "checkpoints/gppnn_WV3/gppnn_WV3_2023_07_27-08_11_42.pth.tar"
           /\ ms_channel = 8
    /\ assigned <=> (pc # "main" /\ choose_dataset \in {"GaoFen2", "WV3"})
    /\ model_built =>
           /\ assigned
           /\ model_channels = IF choose_dataset = "WV3" THEN 8 ELSE 4
    /\ pc \in {"inputs", "load_checkpoint", "model", "dataloader", "device", "main"}
           \/ (pc = "error" /\ ~model_built)
           \/ input_channels = model_channels
    /\ model_weights \in {"", "initial", checkpoint_dir}
    /\ \A k \in 1..Len(writes) : writes[k][2] = choose_dataset

C7_Witness ==
    /\ pc = "done"
    /\ choose_dataset = "GaoFen2"
    /\ model_channels = 4
    /\ input_channels = 4
    /\ model_weights = "checkpoints/gppnn_GF2/gppnn_2023_07_25-18_15_08.pth.tar"
    /\ Len(writes) > 0

\* ---- C8 -----------------------------------------------------------------
\* C8: with a dataset name that is neither 'GaoFen2' nor 'WV3', main() prints
\* that the dataset does not exist and goes on with its locals unassigned;
\* the run ends in an error at the first use of `dataset`, never normally,
\* with no checkpoint loaded, no forward pass made and no file written.
C8_UnknownDataset ==
    choose_dataset \notin {"GaoFen2", "WV3"} =>
        /\ pc \in {"main", "device", "dataloader", "error"}
        /\ pc # "main" => stdout # <<>> /\ stdout[1] = "does not exist"
        /\ ~assigned
        /\ (pc = "error") = (exc = "UnboundLocalError: dataset")
        /\ pc = "error" => stdout = <<"does not exist", "device">>
        /\ ~model_built
        /\ model_weights = ""
        /\ calls = <<>>
        /\ fwd_bench = 0
        /\ fwd_log = <<>>
        /\ writes = <<>>

C8_Witness ==
    /\ choose_dataset = "QuickBird"
    /\ pc = "error"
    /\ exc = "UnboundLocalError: dataset"

\* ---- C9 -----------------------------------------------------------------
\* C9: with an empty test set the loop body never runs, sdi_results stays
\* empty and the division of line 266 raises after the compute and the
\* reset and before the final print, with no file written; with N >= 1 the
\* divisor is N and the final scores are printed.
C9_EmptyTestSet ==
    /\ (Iterating /\ N = 0) =>
           /\ ~InBody
           /\ pc \notin {"print", "done"}
           /\ sdi_results = <<>>
           /\ fwd_log = <<>>
           /\ writes = <<>>
           /\ "Final scores" \notin RangeOf(stdout)
           /\ pc = "error" =>
                  /\ exc = "ZeroDivisionError: average_sdi"
                  /\ calls = SubSeq(PhasesOfMain, 1, 7)
                  /\ test_metric_collection = <<>>
    /\ (Iterating /\ N >= 1) =>
           /\ pc # "error"
           /\ pc \in {"print", "done"} =>
                  /\ Len(sdi_results) = N
                  /\ average_sdi.den = N * SdiScale
           /\ pc = "done" => stdout[Len(stdout)] = "Final scores"

C9_Witness ==
    /\ Iterating
    /\ N = 0
    /\ pc = "error"
    /\ exc = "ZeroDivisionError: average_sdi"

\* ---- C10 ----------------------------------------------------------------
\* C10: every iteration of the test loop opens one new figure and none is
\* closed: the number of open figures is the number of samples processed
\* (one more from plt.subplots to the end of the iteration), and N when the
\* loop has ended.
C10_FiguresStayOpen ==
    /\ figures = Processed + (IF pc \in {"savefig", "savez"} THEN 1 ELSE 0)
    /\ LoopEnded => figures = N

C10_Witness == pc = "done" /\ N = MaxN /\ figures = MaxN

====
